---------------------------- MODULE Spec2Model ----------------------------
(***************************************************************************)
(* One-way folder synchronisation (src/sync.py).                           *)
(*                                                                         *)
(* The state is the two directories on disk, the log file, the locals of   *)
(* sync() and the position of the driver loop of __main__.  File names are *)
(* the numbers 1..NumNames, file contents the numbers 1..NumContents; an   *)
(* entry that is a sub-directory carries SubDir instead of a content.      *)
(* The timestamp that Logger.log puts in front of every message and the    *)
(* echo on stdout under --verbose are left out: no property below reads    *)
(* them.                                                                   *)
(***************************************************************************)
EXTENDS Integers, Sequences, FiniteSets, TLC

\* ------------------------------------------------------------------ bounds
NumNames    == 2      \* names an entry of either directory may have
DigestSpace == 2      \* number of distinct digests (2^128 in the program)
MaxPasses   == 2      \* passes the driver loop is followed for
MaxEnv      == 2      \* mutations made by other processes (EnvSpec only)

Names       == 1..NumNames
\* More contents than digests, as for any fixed-size digest of arbitrary bytes.
NumContents == DigestSpace + 1
Contents    == 1..NumContents
\* What os.listdir also returns: an entry that is a directory, not a file.
SubDir      == 0
Entries     == Contents \cup {SubDir}

\* A directory: its entries by name.
Dirs        == UNION {[S -> Entries] : S \in SUBSET Names}
FileDirs    == UNION {[S -> Contents] : S \in SUBSET Names}
EmptyDir    == [n \in {} |-> SubDir]
\* The value of the loop variable where no loop has bound it.
NoFile      == 0

VARIABLES
    srcExists,   \* the path args.src is an existing directory
    dstExists,   \* the path args.dst is an existing directory
    srcDir,      \* entries of the source directory
    dstDir,      \* entries of the destination directory
    log,         \* lines of the log file, oldest first
    pc,          \* position of the process in __main__ / sync
    src_files,   \* sync's local: os.listdir(src)
    dst_files,   \* sync's local: os.listdir(dst)
    todo,        \* names the running for-loop has still to visit
    file,        \* sync's local: the loop variable (NoFile until a loop binds it)
    error,       \* the exception that ended the process, "none" before
    passes,      \* calls of sync made so far
    ops,         \* history: file operations applied by the current pass
    dst_before,  \* history: the destination as listed by the current pass
    raced,       \* history: effects of stale snapshots seen so far
    envCount     \* mutations made so far by other processes

vars == <<srcExists, dstExists, srcDir, dstDir, log, pc, src_files, dst_files,
          todo, file, error, passes, ops, dst_before, raced, envCount>>

\* --------------------------------------------------------- pure functions
\* hashlib.md5(f.read()).hexdigest(): a digest of the content, not the content.
md5(content) == content % DigestSpace

\* open(path, 'rb') succeeds on an existing regular file only.
IsFile(dir, n) == n \in DOMAIN dir /\ dir[n] # SubDir

\* hash_file of an entry that can be opened.
hash_file(dir, n) == md5(dir[n])

\* Mutant of modified: every name of both listings counts as changed.
modified_always(f) == TRUE

\* lines 65-67: src_hash != dst_hash, for a name both directories can be read at.
modified(f) == hash_file(srcDir, f) # hash_file(dstDir, f)

\* os.listdir: the names directly inside the directory.  The order of the
\* returned list is arbitrary; it shows only in the order in which a for-loop
\* visits the names, which the loops below choose freely from todo.
listdir(dir) == DOMAIN dir

\* Mutant of log_remove: a removal is logged with the message of a copy.
log_remove_as_copy(l, f) == Append(l, <<"Copying", f>>)

\* Logger: each method appends one line to the log file.
log_sync_start(l)   == Append(l, <<"Syncing", NoFile>>)
log_sync_end(l)     == Append(l, <<"Sync completed", NoFile>>)
log_copy(l, f)      == Append(l, <<"Copying", f>>)
log_remove(l, f)    == Append(l, <<"Removing", f>>)

\* Mutant of copy: the bytes land somewhere else than in the destination.
copy_misplaced(from, to, f) == to

\* shutil.copy(os.path.join(src, file), dst): the destination gets the entry
\* with the source file's bytes, created or overwritten.
copy(from, to, f) ==
    [n \in DOMAIN to \cup {f} |-> IF n = f THEN from[f] ELSE to[n]]

\* os.remove(os.path.join(dst, file))
remove(dir, f) == [n \in DOMAIN dir \ {f} |-> dir[n]]

\* What a pass can tell: the same names, and the same digest under each name.
Mirrors(src, dst) ==
    /\ DOMAIN dst = DOMAIN src
    /\ \A n \in DOMAIN src : md5(dst[n]) = md5(src[n])

\* --------------------------------------------------------------- initial
\* After argument parsing and Logger(): nothing logged, sync not yet called.
\* A path that is no directory has no entries.
InitWith(S, D) ==
    /\ srcExists \in BOOLEAN
    /\ dstExists \in BOOLEAN
    /\ srcDir \in (IF srcExists THEN S ELSE {EmptyDir})
    /\ dstDir \in (IF dstExists THEN D ELSE {EmptyDir})
    /\ log = <<>>
    /\ pc = "call_sync"
    /\ src_files = {}
    /\ dst_files = {}
    /\ todo = {}
    /\ file = NoFile
    /\ error = "none"
    /\ passes = 0
    /\ ops = <<>>
    /\ dst_before = EmptyDir
    /\ raced = {}
    /\ envCount = 0

Init == InitWith(Dirs, Dirs)

\* Mutant of Raise: the driver loop catches the exception and polls again.
Raise_swallowed(e) ==
    /\ pc' = "sleep"
    /\ error' = e

\* An uncaught exception leaves sync and the while loop: the process ends.
Raise(e) ==
    /\ pc' = "crashed"
    /\ error' = e

\* ---------------------------------------------------------------- sync
\* line 102 and line 50: the loop calls sync, which logs the start first.
SyncStart ==
    /\ pc = "call_sync"
    /\ passes < MaxPasses
    /\ passes' = passes + 1
    /\ log' = log_sync_start(log)
    /\ ops' = <<>>
    /\ pc' = "list_src"
    /\ UNCHANGED <<srcExists, dstExists, srcDir, dstDir, src_files, dst_files,
                   todo, file, error, dst_before, raced, envCount>>

\* Mutant of ListSrc: a source that cannot be listed counts as empty.
ListSrc_missingIsEmpty ==
    /\ pc = "list_src"
    /\ src_files' = (IF srcExists THEN listdir(srcDir) ELSE {})
    /\ pc' = "list_dst"
    /\ UNCHANGED <<srcExists, dstExists, srcDir, dstDir, log, dst_files, todo,
                   file, error, passes, ops, dst_before, raced, envCount>>

\* line 53: src_files = os.listdir(src)
ListSrc ==
    /\ pc = "list_src"
    /\ IF srcExists
       THEN /\ src_files' = listdir(srcDir)
            /\ pc' = "list_dst"
            /\ error' = error
       ELSE /\ Raise("listdir")
            /\ src_files' = src_files
    /\ UNCHANGED <<srcExists, dstExists, srcDir, dstDir, log, dst_files, todo,
                   file, passes, ops, dst_before, raced, envCount>>

\* Mutant of ListDst: the removal loop runs first, the copy loop not at all.
ListDst_deletesFirst ==
    /\ pc = "list_dst"
    /\ IF dstExists
       THEN /\ dst_files' = listdir(dstDir)
            /\ dst_before' = dstDir
            /\ pc' = "dst_loop"
            /\ todo' = listdir(dstDir)
            /\ error' = error
       ELSE /\ pc' = "crashed"
            /\ error' = "listdir"
            /\ UNCHANGED <<dst_files, dst_before, todo>>
    /\ UNCHANGED <<srcExists, dstExists, srcDir, dstDir, log, src_files, file,
                   passes, ops, raced, envCount>>

\* line 54: dst_files = os.listdir(dst); line 57 then starts the first loop.
ListDst ==
    /\ pc = "list_dst"
    /\ IF dstExists
       THEN /\ dst_files' = listdir(dstDir)
            /\ dst_before' = dstDir
            /\ pc' = "src_loop"
            /\ todo' = src_files
            /\ error' = error
       ELSE /\ Raise("listdir")
            /\ UNCHANGED <<dst_files, dst_before, todo>>
    /\ UNCHANGED <<srcExists, dstExists, srcDir, dstDir, log, src_files, file,
                   passes, ops, raced, envCount>>

\* lines 57-61 and 63-70: one turn of the first loop up to the copy; when
\* the list is exhausted, line 74 starts the second loop.
SrcCheck ==
    /\ pc = "src_loop"
    /\ IF todo = {}
       THEN /\ pc' = "dst_loop"
            /\ todo' = dst_files
            /\ UNCHANGED <<log, file, error, raced>>
       ELSE \E f \in todo :
            /\ file' = f
            /\ todo' = todo \ {f}
            /\ IF f \notin dst_files
               THEN /\ log' = log_copy(log, f)
                    /\ pc' = "copy_new"
                    /\ UNCHANGED <<error, raced>>
               ELSE IF ~IsFile(srcDir, f) \/ ~IsFile(dstDir, f)
               THEN /\ Raise("hash")
                    /\ raced' = IF f \notin DOMAIN srcDir
                                THEN raced \cup {"source_gone"} ELSE raced
                    /\ log' = log
               ELSE IF modified(f)
               THEN /\ log' = log_copy(log, f)
                    /\ pc' = "copy_mod"
                    /\ UNCHANGED <<error, raced>>
               ELSE UNCHANGED <<log, pc, error, raced>>
    /\ UNCHANGED <<srcExists, dstExists, srcDir, dstDir, src_files, dst_files,
                   passes, ops, dst_before, envCount>>

\* shutil.copy of the file the loop is at; kind tells the two call sites apart.
ShutilCopy(kind) ==
    IF IsFile(srcDir, file) /\ (file \in DOMAIN dstDir => IsFile(dstDir, file))
    THEN /\ dstDir' = copy(srcDir, dstDir, file)
         /\ ops' = Append(ops, <<kind, file>>)
         /\ pc' = "src_loop"
         /\ UNCHANGED <<error, raced>>
    ELSE /\ Raise("copy")
         /\ raced' = IF file \notin DOMAIN srcDir
                     THEN raced \cup {"source_gone"} ELSE raced
         /\ UNCHANGED <<dstDir, ops>>

\* line 62: the copy of a file the destination listing did not have.
CopyNew ==
    /\ pc = "copy_new"
    /\ ShutilCopy("Create")
    /\ UNCHANGED <<srcExists, dstExists, srcDir, log, src_files, dst_files,
                   todo, file, passes, dst_before, envCount>>

\* line 71: the copy of a file whose digests differ.
CopyMod ==
    /\ pc = "copy_mod"
    /\ ShutilCopy("Update")
    /\ UNCHANGED <<srcExists, dstExists, srcDir, log, src_files, dst_files,
                   todo, file, passes, dst_before, envCount>>

\* Mutant of DstCheck: the source is listed again before every test.
DstCheck_relists ==
    /\ pc = "dst_loop"
    /\ src_files' = listdir(srcDir)
    /\ IF todo = {}
       THEN /\ pc' = "log_end"
            /\ UNCHANGED <<log, todo, file>>
       ELSE \E f \in todo :
            /\ file' = f
            /\ todo' = todo \ {f}
            /\ IF f \notin listdir(srcDir)
               THEN /\ log' = log_remove(log, f)
                    /\ pc' = "remove"
               ELSE UNCHANGED <<log, pc>>
    /\ UNCHANGED <<srcExists, dstExists, srcDir, dstDir, dst_files,
                   error, passes, ops, dst_before, raced, envCount>>

\* lines 74-78: one turn of the second loop up to the removal, or its end.
DstCheck ==
    /\ pc = "dst_loop"
    /\ IF todo = {}
       THEN /\ pc' = "log_end"
            /\ UNCHANGED <<log, todo, file>>
       ELSE \E f \in todo :
            /\ file' = f
            /\ todo' = todo \ {f}
            /\ IF f \notin src_files
               THEN /\ log' = log_remove(log, f)
                    /\ pc' = "remove"
               ELSE UNCHANGED <<log, pc>>
    /\ UNCHANGED <<srcExists, dstExists, srcDir, dstDir, src_files, dst_files,
                   error, passes, ops, dst_before, raced, envCount>>

\* line 79: os.remove of the file the second loop is at.
Remove ==
    /\ pc = "remove"
    /\ IF IsFile(dstDir, file)
       THEN /\ dstDir' = remove(dstDir, file)
            /\ ops' = Append(ops, <<"Delete", file>>)
            /\ pc' = "dst_loop"
            /\ raced' = IF file \in DOMAIN srcDir
                        THEN raced \cup {"removed_live"} ELSE raced
            /\ error' = error
       ELSE /\ Raise("remove")
            /\ UNCHANGED <<dstDir, ops, raced>>
    /\ UNCHANGED <<srcExists, dstExists, srcDir, log, src_files, dst_files,
                   todo, file, passes, dst_before, envCount>>

\* line 84: the pass ends with its last log line; sync returns and its
\* locals are gone.
SyncEnd ==
    /\ pc = "log_end"
    /\ log' = log_sync_end(log)
    /\ pc' = "sleep"
    /\ src_files' = {}
    /\ dst_files' = {}
    /\ file' = NoFile
    /\ raced' = IF ~Mirrors(srcDir, dstDir) THEN raced \cup {"diverged"} ELSE raced
    /\ UNCHANGED <<srcExists, dstExists, srcDir, dstDir, todo, error, passes,
                   ops, dst_before, envCount>>

\* Mutant of Sleep: is_running is cleared and the loop is left.
Sleep_stops ==
    /\ pc = "sleep"
    /\ pc' = "stopped"
    /\ UNCHANGED <<srcExists, dstExists, srcDir, dstDir, log, src_files,
                   dst_files, todo, file, error, passes, ops, dst_before,
                   raced, envCount>>

\* line 103 and back to line 101: is_running is never cleared.
Sleep ==
    /\ pc = "sleep"
    /\ pc' = "call_sync"
    /\ UNCHANGED <<srcExists, dstExists, srcDir, dstDir, log, src_files,
                   dst_files, todo, file, error, passes, ops, dst_before,
                   raced, envCount>>

SyncNext ==
    \/ SyncStart
    \/ ListSrc
    \/ ListDst
    \/ SrcCheck
    \/ CopyNew
    \/ CopyMod
    \/ DstCheck
    \/ Remove
    \/ SyncEnd
    \/ Sleep

\* ------------------------------------------------------- other processes
\* The NOTE of line 3: nothing locks the two folders, so any other process
\* may create, overwrite or delete a file in either of them between any two
\* steps of sync.  At most MaxEnv such mutations are followed.
write(dir, n, c) == [m \in DOMAIN dir \cup {n} |-> IF m = n THEN c ELSE dir[m]]

CanWrite(dir, n, c) == n \notin DOMAIN dir \/ (IsFile(dir, n) /\ dir[n] # c)

EnvWriteSrc ==
    /\ envCount < MaxEnv
    /\ srcExists
    /\ \E n \in Names, c \in Contents :
          /\ CanWrite(srcDir, n, c)
          /\ srcDir' = write(srcDir, n, c)
    /\ envCount' = envCount + 1
    /\ UNCHANGED <<srcExists, dstExists, dstDir, log, pc, src_files, dst_files,
                   todo, file, error, passes, ops, dst_before, raced>>

EnvRemoveSrc ==
    /\ envCount < MaxEnv
    /\ \E n \in DOMAIN srcDir :
          /\ IsFile(srcDir, n)
          /\ srcDir' = remove(srcDir, n)
    /\ envCount' = envCount + 1
    /\ UNCHANGED <<srcExists, dstExists, dstDir, log, pc, src_files, dst_files,
                   todo, file, error, passes, ops, dst_before, raced>>

EnvWriteDst ==
    /\ envCount < MaxEnv
    /\ dstExists
    /\ \E n \in Names, c \in Contents :
          /\ CanWrite(dstDir, n, c)
          /\ dstDir' = write(dstDir, n, c)
    /\ envCount' = envCount + 1
    /\ UNCHANGED <<srcExists, dstExists, srcDir, log, pc, src_files, dst_files,
                   todo, file, error, passes, ops, dst_before, raced>>

EnvRemoveDst ==
    /\ envCount < MaxEnv
    /\ \E n \in DOMAIN dstDir :
          /\ IsFile(dstDir, n)
          /\ dstDir' = remove(dstDir, n)
    /\ envCount' = envCount + 1
    /\ UNCHANGED <<srcExists, dstExists, srcDir, log, pc, src_files, dst_files,
                   todo, file, error, passes, ops, dst_before, raced>>

EnvNext ==
    \/ EnvWriteSrc
    \/ EnvRemoveSrc
    \/ EnvWriteDst
    \/ EnvRemoveDst

\* ------------------------------------------------------- specifications
\* The program alone: nothing else touches the two directories.
Spec == Init /\ [][SyncNext]_vars

\* The program while other processes change the two directories.
EnvSpec == Init /\ [][SyncNext \/ EnvNext]_vars

\* The scheduler runs the process whenever it can take a step.
FairSpec == Spec /\ WF_vars(SyncNext)

\* The same, started with both directories in place and only files in them:
\* nothing an operation of the pass could fail on.
OkInit == InitWith(FileDirs, FileDirs) /\ srcExists /\ dstExists

OkFairSpec == OkInit /\ [][SyncNext]_vars /\ WF_vars(SyncNext)

\* ------------------------------------------------- vocabulary of the claims
Range(seq) == {seq[k] : k \in DOMAIN seq}

PassDone == pc \in {"log_end", "sleep"}
Idle     == pc \in {"call_sync", "sleep"}
Syncing  == pc \in {"list_src", "list_dst", "src_loop", "copy_new", "copy_mod",
                    "dst_loop", "remove", "log_end"}

\* The operations that turn dst into src, told by names and by content.
Needed(src, dst) ==
         {<<"Create", n>> : n \in DOMAIN src \ DOMAIN dst}
    \cup {<<"Update", n>> : n \in {m \in DOMAIN src \cap DOMAIN dst : src[m] # dst[m]}}
    \cup {<<"Delete", n>> : n \in DOMAIN dst \ DOMAIN src}

\* -------------------------------------------------------------------- C1
\* C1 (convergence): when a pass has completed with nothing else touching
\* the directories and no operation failing, the destination has the
\* source's names and under every name the source's content.
C1_Convergence == pc = "sleep" => dstDir = srcDir

\* -------------------------------------------------------------------- C2
\* C2 (idempotence): a pass that follows a completed pass, with nothing else
\* touching the directories, applies no operation, leaves the destination
\* as it is and appends nothing to the log but its start and its end line.
C2_Idempotence ==
    [][passes' >= 2 =>
          /\ dstDir' = dstDir
          /\ ops' = <<>>
          /\ log' \in {log, log_sync_start(log), log_sync_end(log)}]_vars

\* A second pass has completed after a first pass that created, updated and
\* deleted nothing less than one entry.
C2_Witness ==
    /\ passes = 2
    /\ pc = "sleep"
    /\ Len(log) > 4
    /\ dstDir # EmptyDir

\* -------------------------------------------------------------------- C3
\* C3 (exact classification): the operations a completed pass has applied
\* are exactly one Create per name only in the source listing, one Update
\* per name in both listings whose contents differ and one Delete per name
\* only in the destination listing, each once.
C3_ExactClassification ==
    PassDone =>
        /\ Range(ops) = Needed(srcDir, dst_before)
        /\ Len(ops) = Cardinality(Needed(srcDir, dst_before))

\* -------------------------------------------------------------------- C4
\* What the first loop owes the pass: a copy of every listed source name the
\* destination listing lacks or holds with another digest.
CopiesOwed ==
         {<<"Create", n>> : n \in src_files \ dst_files}
    \cup {<<"Update", n>> : n \in {m \in src_files \cap dst_files :
                                     md5(srcDir[m]) # md5(dst_before[m])}}

\* C4 (ordering within a pass): operations are applied in the order they
\* are produced; once a Delete has been applied no Create or Update follows
\* it in that pass, and no name is tested for deletion before every Create
\* and Update of the pass has been applied.  A rename in the source is a
\* Create of the new name followed by a Delete of the old one.
C4_DeletesLast ==
    /\ \A j, k \in DOMAIN ops :
          (j < k /\ ops[j][1] = "Delete") => ops[k][1] = "Delete"
    /\ pc \in {"dst_loop", "remove", "log_end"} => CopiesOwed \subseteq Range(ops)
    /\ pc \in {"src_loop", "copy_new", "copy_mod"} =>
          \A k \in DOMAIN ops : ops[k][1] # "Delete"

\* A rename: the pass has created one name and then deleted another.
C4_Witness ==
    /\ pc = "log_end"
    /\ \E a, b \in Names :
          /\ a # b
          /\ ops = << <<"Create", a>>, <<"Delete", b>> >>
          /\ srcDir[a] = dst_before[b]

\* -------------------------------------------------------------------- C5
CopyOrRemoveLogged ==
    \E k \in DOMAIN log : log[k][1] \in {"Copying", "Removing"}

\* C5 (missing directory aborts the pass): with the source or the
\* destination directory missing, the pass ends in the listing's error
\* before any copy or removal is logged or applied, and no step changes an
\* entry of either directory; a missing directory is never an empty listing.
C5_MissingDirAborts ==
    /\ [](~(srcExists /\ dstExists) =>
            /\ pc \in {"call_sync", "list_src", "list_dst", "crashed"}
            /\ (pc = "crashed" => error = "listdir")
            /\ ops = <<>>
            /\ ~CopyOrRemoveLogged)
    /\ [][~(srcExists /\ dstExists) =>
            /\ srcDir' = srcDir
            /\ dstDir' = dstDir]_vars

\* The source is missing, the pass has failed, and the destination still
\* has entries.
C5_Witness ==
    /\ ~srcExists
    /\ dstExists
    /\ pc = "crashed"
    /\ error = "listdir"
    /\ dstDir # EmptyDir

\* -------------------------------------------------------------------- C6
LastStart(l) ==
    CHOOSE k \in DOMAIN l :
        /\ l[k][1] = "Syncing"
        /\ \A m \in DOMAIN l : m > k => l[m][1] # "Syncing"

\* The lines the current pass has appended.
PassLines == SubSeq(log, LastStart(log), Len(log))

OpLine(op) ==
    IF op[1] = "Delete" THEN <<"Removing", op[2]>> ELSE <<"Copying", op[2]>>

OpLines == [k \in DOMAIN ops |-> OpLine(ops[k])]

\* The line of the operation that is logged and not yet applied.
PendingLine ==
    IF pc \in {"copy_new", "copy_mod"} THEN << <<"Copying", file>> >>
    ELSE IF pc = "remove" THEN << <<"Removing", file>> >>
    ELSE <<>>

IsPrefix(s, t) == Len(s) <= Len(t) /\ SubSeq(t, 1, Len(s)) = s

\* C6 (log shape): a pass's lines are its start line, then one Copying line
\* per Create or Update and one Removing line per Delete in the order of
\* application, each written before its operation takes effect, then, once
\* the pass has completed, its end line; a pass over identical directories
\* appends the start and the end line only; log lines already written are
\* never changed or removed.
C6_LogShape ==
    /\ [](passes >= 1 /\ pc # "crashed" =>
            PassLines = << <<"Syncing", NoFile>> >> \o OpLines \o PendingLine
                        \o (IF Idle THEN << <<"Sync completed", NoFile>> >>
                            ELSE <<>>))
    /\ [](pc = "sleep" /\ dst_before = srcDir =>
            PassLines = << <<"Syncing", NoFile>>, <<"Sync completed", NoFile>> >>)
    /\ [][IsPrefix(log, log') /\ Len(log') <= Len(log) + 1]_vars

\* A completed pass that copied and removed.
C6_Witness ==
    /\ pc = "sleep"
    /\ \E a, b \in Names :
          PassLines = << <<"Syncing", NoFile>>, <<"Copying", a>>,
                         <<"Removing", b>>, <<"Sync completed", NoFile>> >>

\* -------------------------------------------------------------------- C7
\* The names the current pass has logged an operation for.
LoggedNames == [k \in 1..(Len(PassLines) - 1) |-> PassLines[k + 1][2]]

\* C7 as claimed (self-healing by re-polling): after any failed pass the
\* driver eventually starts another pass.
C7_RepollsAfterFailure ==
    (pc = "crashed" /\ passes < MaxPasses) ~> (pc = "list_src")

\* C7 as amended: no operation is tried twice within a pass, and a pass
\* that fails ends the process: after the error no step is taken, so no
\* later pass starts and neither the log nor a directory changes again.
C7_FailureIsFinal ==
    /\ [][error = "none"]_vars
    /\ [](pc = "crashed" <=> error # "none")
    /\ [](passes >= 1 =>
            \A j, k \in DOMAIN LoggedNames :
                j # k => LoggedNames[j] # LoggedNames[k])

\* A pass has failed in a copy after it had applied another operation, with
\* passes still to go.
C7_Witness ==
    /\ pc = "crashed"
    /\ error = "copy"
    /\ ops # <<>>
    /\ passes < MaxPasses

\* -------------------------------------------------------------------- C8
Count(l, msg) == Cardinality({k \in DOMAIN l : l[k][1] = msg})

InLoops == {"src_loop", "copy_new", "copy_mod", "dst_loop", "remove", "log_end"}

\* C9 (stale snapshots): the two listings are taken once, at the start of a
\* pass, and are not refreshed while it runs, whatever other processes do to
\* the directories meanwhile; every copy and removal is decided on them.
\* (The states this makes reachable are those of C9_Witness.)
C9_SnapshotsNeverRefreshed ==
    /\ [][(pc \in InLoops /\ pc' \in InLoops) =>
            (src_files' = src_files /\ dst_files' = dst_files)]_vars
    /\ [](pc = "copy_new" => file \in src_files \ dst_files)
    /\ [](pc = "copy_mod" => file \in src_files \cap dst_files)
    /\ [](pc = "remove" => file \in dst_files \ src_files)
    /\ [][ops' # ops /\ ops' # <<>> =>
            LET op == ops'[Len(ops')]
            IN  IF op[1] = "Delete" THEN op[2] \in dst_files \ src_files
                ELSE op[2] \in src_files]_vars

\* (a) a pass has removed a destination entry whose name was in the source
\* at that moment, (c) a pass has completed with a destination that does not
\* mirror the source, and (b) a pass has just failed on a source file that
\* is no longer there.
C9_Witness ==
    /\ "removed_live" \in raced
    /\ "diverged" \in raced
    /\ "source_gone" \in raced
    /\ pc = "crashed"
    /\ error \in {"copy", "hash"}
    /\ file \notin DOMAIN srcDir

\* ------------------------------------------------------------------- C10
\* The entry of the destination under n differs between the two states.
Touched(n) ==
    \/ (n \in DOMAIN dstDir) # (n \in DOMAIN dstDir')
    \/ n \in DOMAIN dstDir /\ n \in DOMAIN dstDir' /\ dstDir'[n] # dstDir[n]

\* The step applies an operation to n.
Applied(n) == ops' # ops /\ ops' # <<>> /\ ops'[Len(ops')][2] = n

\* C10 (one-way frame): no step of a pass, completed or failed, changes the
\* source; a step writes or removes a destination entry only by applying an
\* operation to it; and an operation is applied only to a name of one
\* listing alone or to a name of both whose content differs from the
\* source's, never to a name of both listings with the source's content.
C10_Frame ==
    [][/\ srcDir' = srcDir
       /\ srcExists' = srcExists
       /\ dstExists' = dstExists
       /\ \A n \in Names :
            /\ Touched(n) => Applied(n)
            /\ Applied(n) =>
                 /\ n = file
                 /\ \/ ops'[Len(ops')][1] = "Create" /\ n \in src_files \ dst_files
                    \/ ops'[Len(ops')][1] = "Delete" /\ n \in dst_files \ src_files
                    \/ /\ ops'[Len(ops')][1] = "Update"
                       /\ n \in src_files \cap dst_files
                       /\ srcDir[n] # dst_before[n]
                       /\ dstDir[n] = dst_before[n]]_vars

\* A pass has applied an operation and has left alone a name of both
\* listings that had the source's content.
C10_Witness ==
    /\ pc = "log_end"
    /\ ops # <<>>
    /\ \E n \in src_files \cap dst_files :
          /\ srcDir[n] = dst_before[n]
          /\ dstDir[n] = dst_before[n]

=============================================================================
